---------------------------- MODULE Spec2Model ----------------------------
(***************************************************************************)
(* Model of sdmx/rest/common.py: the SDMX-REST query parameters            *)
(* (Parameter.handle and its four variants), the parameter registry PARAM  *)
(* and the URL builder (URL.__init__, the per-query-type handlers, join).  *)
(*                                                                         *)
(* Python values are tagged tuples, so that values of different Python     *)
(* types can be compared: <<"none">>, <<"str", s>>, <<"int", n>>,          *)
(* <<"bool", b>>.  A Python dict is a sequence of <<key, value>> pairs     *)
(* with distinct keys, in insertion order.  Python str is a TLA+ string.   *)
(***************************************************************************)
EXTENDS Integers, Sequences, FiniteSets, TLC

(***************************************************************************)
(* Bounds of the model.                                                    *)
(***************************************************************************)
\* Largest number of top-level keyword arguments of one URL(...) call.
MaxKwargs == 3
\* Largest number of entries of the nested `params` mapping.
MaxNested == 1
\* Largest number of entries of the mapping given to Parameter.handle.
MaxParameters == 3
\* Integers offered to a PositiveIntParam are -MaxInt .. MaxInt.
MaxInt == 5

(***************************************************************************)
(* Python values.                                                          *)
(***************************************************************************)
None == <<"none">>
StrV(s) == <<"str", s>>
IntV(n) == <<"int", n>>
BoolV(b) == <<"bool", b>>

IsNone(v) == v[1] = "none"
IsStr(v) == v[1] = "str"
IsInt(v) == v[1] = "int"

\* bool(v): the truth value Python's `or` tests.
Truthy(v) ==
    CASE v[1] = "none" -> FALSE
      [] v[1] = "str"  -> v[2] # ""
      [] v[1] = "int"  -> v[2] # 0
      [] v[1] = "bool" -> v[2]

\* str(v), as str() and an f-string's {v} format a value.
PyStr(v) ==
    CASE v[1] = "none" -> "None"
      [] v[1] = "str"  -> v[2]
      [] v[1] = "int"  -> ToString(v[2])
      [] v[1] = "bool" -> IF v[2] THEN "True" ELSE "False"

(***************************************************************************)
(* Python dict: a sequence of <<key, value>> in insertion order.           *)
(***************************************************************************)
EmptyDict == << >>

Keys(d) == {d[i][1] : i \in 1..Len(d)}

Has(d, k) == k \in Keys(d)

Get(d, k) == d[CHOOSE i \in 1..Len(d) : d[i][1] = k][2]

\* del d[k] / the removal done by d.pop(k): the other entries keep their order.
Del(d, k) ==
    LET Keep(e) == e[1] # k
    IN  SelectSeq(d, Keep)

\* d[k] = v: an existing key keeps its position, a new key goes last.
Put(d, k, v) ==
    IF Has(d, k)
    THEN [i \in 1..Len(d) |-> IF d[i][1] = k THEN <<k, v>> ELSE d[i]]
    ELSE Append(d, <<k, v>>)

\* d.update(e)
RECURSIVE Update(_, _)
Update(d, e) ==
    IF e = << >> THEN d
    ELSE Update(Put(d, e[1][1], e[1][2]), Tail(e))

\* d.setdefault(k, v)
SetDefault(d, k, v) == IF Has(d, k) THEN d ELSE Append(d, <<k, v>>)

(***************************************************************************)
(* Strings.                                                                *)
(***************************************************************************)
LowerCase == "abcdefghijklmnopqrstuvwxyz"
UpperCase == "ABCDEFGHIJKLMNOPQRSTUVWXYZ"

Char(s, i) == SubSeq(s, i, i)

From(s, i) == SubSeq(s, i, Len(s))

IsLower(c) == \E i \in 1..Len(LowerCase) : Char(LowerCase, i) = c

\* c.upper() for a lower-case letter c
Upper(c) == Char(UpperCase, CHOOSE i \in 1..Len(LowerCase) : Char(LowerCase, i) = c)

\* Index of the first character of s that is one of the characters of cs;
\* Len(s) + 1 if there is none.
FindAny(s, cs) ==
    LET hits == {i \in 1..Len(s) : \E j \in 1..Len(cs) : Char(s, i) = Char(cs, j)}
    IN  IF hits = {} THEN Len(s) + 1
        ELSE CHOOSE i \in hits : \A j \in hits : i <= j

\* re.sub(r"_([a-z])", lambda x: x.group(1).upper(), name)
RECURSIVE camelName(_)
camelName(name) ==
    IF Len(name) = 0 THEN ""
    ELSE IF Char(name, 1) = "_" /\ Len(name) >= 2 /\ IsLower(Char(name, 2))
         THEN Upper(Char(name, 2)) \o camelName(From(name, 3))
         ELSE Char(name, 1) \o camelName(From(name, 2))

\* sep.join(parts) for a sequence of strings
RECURSIVE StrJoin(_, _)
StrJoin(sep, parts) ==
    IF parts = << >> THEN ""
    ELSE IF Len(parts) = 1 THEN parts[1]
    ELSE parts[1] \o sep \o StrJoin(sep, Tail(parts))

(***************************************************************************)
(* Parameter and its variants.  A Parameter is a record of the dataclass's *)
(* fields (name, values, default) and of its class, cls.                   *)
(***************************************************************************)
OK == "ok"
DuplicateError == "ValueError: Duplicate values for query parameters"
BothError == "ValueError: Cannot give both"
PositiveError == "ValueError: must be positive integer"
UnexpectedError == "ValueError: Unexpected/unhandled parameters"
AssertionError == "AssertionError"
KeyError == "KeyError"
TypeError == "TypeError"

\* The dataclass constructors, with the defaults of Parameter's fields.
Parameter(cls, name, values, default) ==
    [cls |-> cls, name |-> name, values |-> values, default |-> default]

\* What a call of p.handle(parameters, ...) leaves: the parameters mapping as
\* the call left it (it is mutated in place), the returned fragment, and the
\* exception raised, if any (then there is no fragment).
Outcome(parameters, frag, err) ==
    [parameters |-> parameters, frag |-> frag, err |-> err]

\* assert value in self.values or 0 == len(self.values)
Allowed(p, value) == value \in p.values \/ Cardinality(p.values) = 0

\* PathParameter.handle
PathParameter_handle(p, parameters) ==
    LET value == IF Has(parameters, p.name) THEN Get(parameters, p.name)
                 ELSE p.default
        rest  == Del(parameters, p.name)
    IN  IF ~Allowed(p, value) THEN Outcome(rest, EmptyDict, AssertionError)
        ELSE Outcome(rest, <<<<p.name, value>>>>, OK)

\* QueryParameter_pop with the fragment under the key that was given, not under
\* the camelCase name.
QueryParameter_pop_GivenKey(p, parameters, k, camel) ==
    IF ~Allowed(p, Get(parameters, k))
    THEN Outcome(Del(parameters, k), EmptyDict, AssertionError)
    ELSE Outcome(Del(parameters, k), <<<<k, Get(parameters, k)>>>>, OK)

\* QueryParameter.handle, lines 199-201: value = parameters.pop(k), the
\* assertion, the fragment under the camelCase name.
QueryParameter_pop(p, parameters, k, camel) ==
    IF ~Allowed(p, Get(parameters, k))
    THEN Outcome(Del(parameters, k), EmptyDict, AssertionError)
    ELSE Outcome(Del(parameters, k), <<<<camel, Get(parameters, k)>>>>, OK)

\* QueryParameter.handle, lines 195-203, for present = the names of the
\* parameter found among the keys of parameters.
QueryParameter_present(p, parameters, present, camel) ==
    IF present = {} THEN Outcome(parameters, EmptyDict, OK)
    ELSE IF Cardinality(present) = 2
    THEN Outcome(parameters, EmptyDict, BothError)
    ELSE QueryParameter_pop(p, parameters, CHOOSE x \in present : TRUE, camel)

\* QueryParameter.handle; camel is self.camelName, set by __post_init__.
QueryParameter_named(p, parameters, camel) ==
    QueryParameter_present(p, parameters, {p.name, camel} \cap Keys(parameters),
                           camel)

QueryParameter_handle(p, parameters) ==
    QueryParameter_named(p, parameters, camelName(p.name))

\* AgencyParam_handle with the source's id assigned, not set as a default.
AgencyParam_handle_Assign(p, parameters, source) ==
    PathParameter_handle(p, Put(parameters, p.name,
                                IF source.hasId THEN source.id ELSE None))

\* AgencyParam.handle; getattr(source, "id", None)
AgencyParam_handle(p, parameters, source) ==
    LET id == IF source.hasId THEN source.id ELSE None
    IN  PathParameter_handle(p, SetDefault(parameters, p.name, id))

\* The number a Python int or bool compares as.
Number(v) == IF IsInt(v) THEN v[2] ELSE IF v[2] THEN 1 ELSE 0

\* PositiveIntParam_check with `< 0` for `<= 0`.
PositiveIntParam_check_Negative(result) ==
    IF result.err # OK THEN result
    ELSE IF result.frag = EmptyDict THEN result
    ELSE LET k == result.frag[1][1]
             v == result.frag[1][2]
         IN  IF ~(IsInt(v) \/ v[1] = "bool")
             THEN Outcome(result.parameters, EmptyDict, TypeError)
             ELSE IF Number(v) < 0
             THEN Outcome(result.parameters, EmptyDict, PositiveError)
             ELSE Outcome(result.parameters, <<<<k, StrV(PyStr(StrV(k)))>>>>, OK)

\* PositiveIntParam.handle, lines 222-231, for result = super().handle(...):
\* an exception of super().handle propagates; an empty result is returned as
\* it is (IndexError); `<=` between a str or None and 0 is a TypeError.
PositiveIntParam_check(result) ==
    IF result.err # OK THEN result
    ELSE IF result.frag = EmptyDict THEN result
    ELSE LET k == result.frag[1][1]
             v == result.frag[1][2]
         IN  IF ~(IsInt(v) \/ v[1] = "bool")
             THEN Outcome(result.parameters, EmptyDict, TypeError)
             ELSE IF Number(v) <= 0
             THEN Outcome(result.parameters, EmptyDict, PositiveError)
             ELSE Outcome(result.parameters, <<<<k, StrV(PyStr(StrV(k)))>>>>, OK)

\* PositiveIntParam.handle
PositiveIntParam_handle(p, parameters) ==
    PositiveIntParam_check(QueryParameter_handle(p, parameters))

\* p.handle(parameters, source): dispatch on the class of p.
Handle(p, parameters, source) ==
    CASE p.cls = "PathParameter"    -> PathParameter_handle(p, parameters)
      [] p.cls = "QueryParameter"   -> QueryParameter_handle(p, parameters)
      [] p.cls = "AgencyParam"      -> AgencyParam_handle(p, parameters, source)
      [] p.cls = "PositiveIntParam" -> PositiveIntParam_handle(p, parameters)

\* The registry PARAM.
PARAM ==
    [agency_id |-> Parameter("AgencyParam", "agency_id", {}, None),
     resource_id |-> Parameter("PathParameter", "resource_id", {}, StrV("all")),
     start_period |-> Parameter("QueryParameter", "start_period", {}, None),
     end_period |-> Parameter("QueryParameter", "end_period", {}, None),
     updated_after |-> Parameter("QueryParameter", "updated_after", {}, None),
     first_n_observations |->
         Parameter("PositiveIntParam", "first_n_observations", {}, None),
     last_n_observations |->
         Parameter("PositiveIntParam", "last_n_observations", {}, None),
     dimension_at_observation |->
         Parameter("QueryParameter", "dimension_at_observation", {}, None),
     include_history |->
         Parameter("QueryParameter", "include_history",
                   {BoolV(TRUE), BoolV(FALSE)}, None),
     explicit_measure |->
         Parameter("QueryParameter", "explicit_measure",
                   {BoolV(TRUE), BoolV(FALSE)}, None),
     mode |->
         Parameter("QueryParameter", "mode",
                   {StrV("available"), StrV("exact")}, None)]

\* URL._all_parameters: the registry a concrete URL class supplies.  PARAM
\* holds no "context" and no "version"; the concrete classes add them, as
\* path parameters with the dataclass's defaults (no allowable values, no
\* default value).
all_parameters ==
    [n \in DOMAIN PARAM \cup {"context", "version"} |->
        IF n \in DOMAIN PARAM THEN PARAM[n]
        ELSE Parameter("PathParameter", n, {}, None)]

(***************************************************************************)
(* QueryType and Resource.                                                 *)
(***************************************************************************)
QueryType ==
    {"availability", "data", "metadata", "schema", "structure", "registration"}

Resource ==
    {"actualconstraint", "agencyscheme", "allowedconstraint",
     "attachementconstraint", "availableconstraint", "categorisation",
     "categoryscheme", "codelist", "conceptscheme", "contentconstraint",
     "customtypescheme", "data", "dataconsumerscheme", "dataflow",
     "dataproviderscheme", "datastructure", "hierarchicalcodelist",
     "metadata", "metadataflow", "metadatastructure",
     "namepersonalisationscheme", "organisationscheme",
     "organisationunitscheme", "process", "provisionagreement",
     "reportingtaxonomy", "rulesetscheme", "schema", "structure",
     "structureset", "transformationscheme", "userdefinedoperatorscheme",
     "vtlmappingscheme"}

\* URL.identify_query_type: QueryType[resource_type.name], "structure" on
\* KeyError.
identify_query_type(resource_type) ==
    IF resource_type \in QueryType THEN resource_type ELSE "structure"

(***************************************************************************)
(* The URL builder.  A build is a record:                                  *)
(*   own      the builder's own dict, made by copy(kwargs)                 *)
(*   nested   the dict object the caller passed as `params`                *)
(*   ref      which of the two objects self._params refers to              *)
(*   stored   self._params as first stored (line 298)                      *)
(*   path, query, query_type   self._path, self._query, self.query_type    *)
(*   stage    how far __init__ got: "params" (the arguments are being      *)
(*            stored), "classified" (the query type is set, the handler    *)
(*            runs), "handled" (the handler returned), "validated"         *)
(*            (nothing was left over: __init__ returned)                   *)
(*   err      the exception __init__ raised, or OK                         *)
(***************************************************************************)
\* self._params
ParamsOf(b) == IF b.ref = "own" THEN b.own ELSE b.nested

\* a mutation of self._params in place
WithParams(b, d) ==
    IF b.ref = "own" THEN [b EXCEPT !.own = d] ELSE [b EXCEPT !.nested = d]

Raise(b, e) == [b EXCEPT !.err = e]

\* str.split(sep) for a one-character sep
RECURSIVE Split(_, _)
Split(s, sep) ==
    LET i == FindAny(s, sep)
    IN  IF i > Len(s) THEN <<s>>
        ELSE <<SubSeq(s, 1, i - 1)>> \o Split(From(s, i + 1), sep)

\* StoreParams without the check for duplicates: `params` overrides.
StoreParams_NoCheck(kwargs, params_dict) ==
    [own |-> Update(kwargs, params_dict), nested |-> params_dict, ref |-> "own",
     stored |-> Update(kwargs, params_dict), path |-> EmptyDict,
     query |-> EmptyDict, query_type |-> "unset", stage |-> "params", err |-> OK]

\* StoreParams with the keywords merged into the caller's mapping, which
\* becomes self._params: params_dict.update(params); self._params = params_dict.
StoreParams_Aliased(kwargs, params_dict) ==
    LET b0 == [own |-> kwargs, nested |-> params_dict, ref |-> "nested",
               stored |-> EmptyDict, path |-> EmptyDict, query |-> EmptyDict,
               query_type |-> "unset", stage |-> "params", err |-> OK]
    IN  IF Keys(kwargs) \cap Keys(params_dict) # {} THEN Raise(b0, DuplicateError)
        ELSE [b0 EXCEPT !.nested = Update(params_dict, kwargs),
                        !.stored = Update(params_dict, kwargs)]

\* URL.__init__, lines 291-298: store the keyword arguments.  kwargs holds the
\* keywords other than `params`; params_dict is the mapping given as `params`
\* (empty also when the keyword is absent: the default of pop).
StoreParams(kwargs, params_dict) ==
    LET params  == kwargs
        overlap == Keys(params) \cap Keys(params_dict)
        b0 == [own |-> params, nested |-> params_dict, ref |-> "own",
               stored |-> EmptyDict, path |-> EmptyDict, query |-> EmptyDict,
               query_type |-> "unset", stage |-> "params", err |-> OK]
    IN  IF overlap # {} THEN Raise(b0, DuplicateError)
        ELSE LET merged == Update(params, params_dict)
             IN  [b0 EXCEPT !.own = merged, !.stored = merged]

\* self._path.update(p.handle(self._params, self.source)) for the outcome
\* `out` of the call of handle: self._params is as the call left it, and the
\* path is updated unless the call raised.
UpdatePath(b, out) ==
    IF out.err # OK THEN Raise(WithParams(b, out.parameters), out.err)
    ELSE [WithParams(b, out.parameters) EXCEPT !.path = Update(b.path, out.frag)]

\* The loop of URL.handle_path_params over the names of `names`, in order; an
\* exception ends it.
RECURSIVE PathParamsLoop(_, _, _)
PathParamsLoop(b, names, source) ==
    IF names = << >> \/ b.err # OK THEN b
    ELSE IF Head(names) \notin DOMAIN all_parameters THEN Raise(b, KeyError)
    ELSE PathParamsLoop(
             UpdatePath(b, Handle(all_parameters[Head(names)], ParamsOf(b), source)),
             Tail(names), source)

\* URL.handle_path_params
handle_path_params(b, expr, source) == PathParamsLoop(b, Split(expr, "/"), source)

\* self._path.update({self.resource_type.name: None})
SeedPath(b, resource_type) ==
    [b EXCEPT !.path = Update(b.path, <<<<resource_type, None>>>>)]

\* URL.handle_data, lines 336-337: if "key" in self._params: ...
MoveKey(b) ==
    IF Has(ParamsOf(b), "key")
    THEN [WithParams(b, Del(ParamsOf(b), "key"))
             EXCEPT !.path = Put(b.path, "key", Get(ParamsOf(b), "key"))]
    ELSE b

\* MoveFlowRef with resource_id removed but not stored in the path.
MoveFlowRef_Dropped(b) ==
    IF ~Has(ParamsOf(b), "resource_id") THEN Raise(b, KeyError)
    ELSE MoveKey([WithParams(b, Del(ParamsOf(b), "resource_id"))
                     EXCEPT !.path = Put(b.path, "flow_ref", None)])

\* URL.handle_data, line 334: self._path["flow_ref"] =
\* self._params.pop("resource_id"); pop raises KeyError when the key is absent.
MoveFlowRef(b) ==
    IF ~Has(ParamsOf(b), "resource_id") THEN Raise(b, KeyError)
    ELSE MoveKey([WithParams(b, Del(ParamsOf(b), "resource_id"))
                     EXCEPT !.path = Put(b.path, "flow_ref",
                                         Get(ParamsOf(b), "resource_id"))])

\* URL.handle_data (also handle_metadata)
handle_data(b, resource_type) == MoveFlowRef(SeedPath(b, resource_type))

\* SchemaPathExpr with resource_id before agency_id.
SchemaPathExpr_Swapped == "context/resource_id/agency_id/version"

\* The path that URL.handle_schema hands to handle_path_params.
SchemaPathExpr == "context/agency_id/resource_id/version"

\* URL.handle_schema
handle_schema(b, resource_type, source) ==
    handle_path_params(SeedPath(b, resource_type), SchemaPathExpr, source)

\* URL.handle_structure: abstract; the body of the base class does nothing.
handle_structure(b) == b

\* getattr(self, f"handle_{self.query_type.name}")()
Dispatch(b, resource_type, source) ==
    CASE b.query_type \in {"data", "metadata"} -> handle_data(b, resource_type)
      [] b.query_type = "schema" -> handle_schema(b, resource_type, source)
      [] b.query_type = "structure" -> handle_structure(b)
      [] OTHER -> Raise(b, "AttributeError")

\* CheckConsumed without the check of what is left over.
CheckConsumed_Lenient(b) ==
    IF b.err # OK THEN b ELSE [b EXCEPT !.stage = "validated"]

\* URL.__init__, lines 310-312, after the handler: an exception of the handler
\* propagates; parameters left over are an error.
CheckConsumed(b) ==
    IF b.err # OK THEN b
    ELSE IF Len(ParamsOf(b)) # 0
    THEN Raise([b EXCEPT !.stage = "handled"], UnexpectedError)
    ELSE [b EXCEPT !.stage = "validated"]

\* URL.__init__, lines 302-312, for the build b that lines 291-300 leave.
ClassifyAndHandle(b, source, resource_type) ==
    IF b.err # OK THEN b
    ELSE CheckConsumed(
             Dispatch([b EXCEPT !.query_type = identify_query_type(resource_type),
                                !.stage = "classified"],
                      resource_type, source))

\* URL.__init__
URL_init(source, resource_type, kwargs, params_dict) ==
    ClassifyAndHandle(StoreParams(kwargs, params_dict), source, resource_type)

(***************************************************************************)
(* urllib.parse.urlsplit and urlunsplit, and URL.join.                     *)
(***************************************************************************)
Digits == "0123456789"
SchemeChars == LowerCase \o UpperCase \o Digits \o "+-."

\* c.lower()
Lower(c) ==
    IF \E i \in 1..Len(UpperCase) : Char(UpperCase, i) = c
    THEN Char(LowerCase, CHOOSE i \in 1..Len(UpperCase) : Char(UpperCase, i) = c)
    ELSE c

RECURSIVE LowerStr(_)
LowerStr(s) == IF Len(s) = 0 THEN "" ELSE Lower(Char(s, 1)) \o LowerStr(From(s, 2))

\* urlsplit(url): scheme, netloc, path, query, fragment
urlsplit(url) ==
    LET i == FindAny(url, ":")
        hasScheme ==
            /\ i > 1 /\ i <= Len(url)
            /\ FindAny(Char(url, 1), LowerCase \o UpperCase) = 1
            /\ \A j \in 1..(i - 1) : FindAny(Char(url, j), SchemeChars) = 1
        scheme == IF hasScheme THEN LowerStr(SubSeq(url, 1, i - 1)) ELSE ""
        u1 == IF hasScheme THEN From(url, i + 1) ELSE url
        hasNetloc == SubSeq(u1, 1, 2) = "//"
        delim == 2 + FindAny(From(u1, 3), "/?#")
        netloc == IF hasNetloc THEN SubSeq(u1, 3, delim - 1) ELSE ""
        u2 == IF hasNetloc THEN From(u1, delim) ELSE u1
        h == FindAny(u2, "#")
        fragment == From(u2, h + 1)
        u3 == SubSeq(u2, 1, h - 1)
        q == FindAny(u3, "?")
    IN  [scheme |-> scheme, netloc |-> netloc, path |-> SubSeq(u3, 1, q - 1),
         query |-> From(u3, q + 1), fragment |-> fragment]

\* urllib.parse.uses_netloc
UsesNetloc ==
    {"", "ftp", "http", "gopher", "nntp", "telnet", "imap", "wais", "file",
     "mms", "https", "shttp", "snews", "prospero", "rtsp", "rtspu", "rsync",
     "svn", "svn+ssh", "sftp", "nfs", "git", "git+ssh", "ws", "wss"}

\* urlunsplit((scheme, netloc, url, query, None))
urlunsplit(scheme, netloc, path, query) ==
    LET u1 == IF netloc # "" \/ (scheme # "" /\ scheme \in UsesNetloc
                                 /\ SubSeq(path, 1, 2) # "//")
              THEN "//" \o netloc \o
                   (IF path # "" /\ Char(path, 1) # "/" THEN "/" \o path ELSE path)
              ELSE path
        u2 == IF scheme # "" THEN scheme \o ":" \o u1 ELSE u1
    IN  IF query # "" THEN u2 \o "?" \o query ELSE u2

\* (value or name) for the entries of self._path, in order
RECURSIVE PathSegments(_)
PathSegments(path) ==
    IF path = << >> THEN << >>
    ELSE <<IF Truthy(path[1][2]) THEN path[1][2] ELSE StrV(path[1][1])>>
         \o PathSegments(Tail(path))

\* f"{k}={v}" for the entries of self._query, in order
RECURSIVE QueryPairs(_)
QueryPairs(query) ==
    IF query = << >> THEN << >>
    ELSE <<query[1][1] \o "=" \o PyStr(query[1][2])>> \o QueryPairs(Tail(query))

\* The str values of a sequence of Python str
RECURSIVE Strings(_)
Strings(vs) == IF vs = << >> THEN << >> ELSE <<vs[1][2]>> \o Strings(Tail(vs))

\* URL.join: the URL, or TypeError when "/".join meets a value that is no str.
JoinParts(parts, segs, query) ==
    IF \E i \in 1..Len(segs) : ~IsStr(segs[i])
    THEN [err |-> TypeError, url |-> ""]
    ELSE [err |-> OK,
          url |-> urlunsplit(parts.scheme, parts.netloc,
                      StrJoin("/", <<parts.path>> \o Strings(segs)),
                      StrJoin("&", QueryPairs(query)))]

join(source, path, query) ==
    JoinParts(urlsplit(source.url), PathSegments(path), query)

(***************************************************************************)
(* State.                                                                  *)
(*                                                                         *)
(* One URL object: pc is its position ("new": not constructed; "failed":   *)
(* __init__ raised err; "built": __init__ returned; "joined": join() was   *)
(* called).  source, resource_type, kwargs and params_dict are the         *)
(* arguments of the constructor as the caller passed them; callerParams is *)
(* the caller's `params` mapping object as it is now.  _params, _path,     *)
(* _query and query_type are the object's attributes (empty or "unset"     *)
(* while not assigned), stored is _params as first stored, stage and err   *)
(* tell how far __init__ got and what it raised, url is what join()        *)
(* returned.                                                               *)
(*                                                                         *)
(* One call of Parameter.handle: call records the parameter, the           *)
(* arguments, and the outcome (the mapping as left, the fragment, the      *)
(* exception).                                                             *)
(***************************************************************************)
VARIABLES pc, source, resource_type, kwargs, params_dict, callerParams,
          _params, stored, _path, _query, query_type, stage, err, url, call

urlVars == <<pc, source, resource_type, kwargs, params_dict, callerParams,
             _params, stored, _path, _query, query_type, stage, err, url>>

vars == <<pc, source, resource_type, kwargs, params_dict, callerParams,
          _params, stored, _path, _query, query_type, stage, err, url, call>>

(***************************************************************************)
(* Inputs.                                                                 *)
(***************************************************************************)
\* A source: its base URL and, when it has one, its id.
Source(u, hasId, id) == [url |-> u, hasId |-> hasId, id |-> id]

Sources ==
    {Source("https://example.org/sdmx", TRUE, StrV("ECB")),
     Source("http://ws.example.org/rest/?fmt=xml#top", FALSE, None)}

\* The resource types offered to URL(...).
ResourceTypes ==
    Resource \cap {"data", "metadata", "schema", "structure", "dataflow"}

\* The dicts of at most n entries with keys from the domain of vals, the
\* value of key k from vals[k], in every insertion order.
Dicts(vals, n) ==
    LET entries == {<<k, v>> : k \in DOMAIN vals, v \in UNION {vals[x] : x \in DOMAIN vals}}
        good == {e \in entries : e[2] \in vals[e[1]]}
    IN  {d \in UNION {[1..m -> good] : m \in 0..n} :
            \A i, j \in 1..Len(d) : d[i][1] = d[j][1] => i = j}

\* Keyword arguments offered to URL(...).
KwargValues ==
    [resource_id |-> {StrV("EXR"), StrV("")},
     key |-> {StrV("A.B")},
     agency_id |-> {StrV("OECD")},
     version |-> {StrV("1.0")},
     context |-> {StrV("dataflow")},
     bogus_param |-> {StrV("x")}]

NestedValues ==
    [resource_id |-> {StrV("EXR")},
     agency_id |-> {StrV("IMF")},
     bogus_param |-> {StrV("x")},
     key |-> {StrV("")}]

NoCall == [cls |-> "none"]

Init ==
    /\ pc = "new"
    /\ source = Source("", FALSE, None)
    /\ resource_type = "unset"
    /\ kwargs = EmptyDict
    /\ params_dict = EmptyDict
    /\ callerParams = EmptyDict
    /\ _params = EmptyDict
    /\ stored = EmptyDict
    /\ _path = EmptyDict
    /\ _query = EmptyDict
    /\ query_type = "unset"
    /\ stage = "unset"
    /\ err = OK
    /\ url = [err |-> OK, url |-> ""]
    /\ call = NoCall

(***************************************************************************)
(* The URL builder's operations.                                           *)
(***************************************************************************)
\* URL(src, rt, params=pd, **kw)
Construct ==
    /\ pc = "new"
    /\ \E src \in Sources, rt \in ResourceTypes,
          kw \in Dicts(KwargValues, MaxKwargs),
          pd \in Dicts(NestedValues, MaxNested) :
          \E b \in {URL_init(src, rt, kw, pd)} :
              /\ source' = src
              /\ resource_type' = rt
              /\ kwargs' = kw
              /\ params_dict' = pd
              /\ callerParams' = b.nested
              /\ _params' = IF b.stage = "params" THEN EmptyDict ELSE ParamsOf(b)
              /\ stored' = b.stored
              /\ _path' = b.path
              /\ _query' = b.query
              /\ query_type' = b.query_type
              /\ stage' = b.stage
              /\ err' = b.err
              /\ pc' = IF b.err = OK THEN "built" ELSE "failed"
    /\ UNCHANGED <<url, call>>

\* URL.join()
Join ==
    /\ pc = "built"
    /\ url' = join(source, _path, _query)
    /\ pc' = "joined"
    /\ UNCHANGED <<source, resource_type, kwargs, params_dict, callerParams,
                   _params, stored, _path, _query, query_type, stage, err, call>>

Next == Construct \/ Join

Spec == Init /\ [][Next]_vars

(***************************************************************************)
(* Calls of Parameter.handle.                                              *)
(***************************************************************************)
\* The parameters of the registry of class cls.
OfClass(cls) ==
    {all_parameters[n] : n \in {m \in DOMAIN all_parameters :
                                    all_parameters[m].cls = cls}}

\* Values offered for a parameter of class cls.
ValuesFor(cls) ==
    CASE cls = "PositiveIntParam" ->
             {IntV(n) : n \in (0 - MaxInt)..MaxInt} \cup {StrV("5")}
      [] cls = "QueryParameter" -> {StrV("2020-01"), StrV("exact"), BoolV(TRUE)}
      [] cls = "PathParameter" -> {StrV("EXR"), StrV(""), None}
      [] cls = "AgencyParam" -> {StrV("OECD"), StrV(""), None}

\* The mappings offered to p.handle: p's name, its camelCase name and an
\* unrelated key, in every insertion order.
ParametersFor(p) ==
    Dicts([k \in {p.name, camelName(p.name), "key"} |->
              IF k = "key" THEN {StrV("A.B")} ELSE ValuesFor(p.cls)],
          MaxParameters)

Called(p, parameters, src, out) ==
    [cls |-> p.cls, p |-> p, parameters |-> parameters, source |-> src, out |-> out]

\* PathParameter.handle(parameters, source)
CallPathParameter ==
    /\ call = NoCall
    /\ \E p \in OfClass("PathParameter"), src \in Sources :
          \E parameters \in ParametersFor(p) :
              call' = Called(p, parameters, src, PathParameter_handle(p, parameters))
    /\ UNCHANGED urlVars

\* QueryParameter.handle(parameters)
CallQueryParameter ==
    /\ call = NoCall
    /\ \E p \in OfClass("QueryParameter"), src \in Sources :
          \E parameters \in ParametersFor(p) :
              call' = Called(p, parameters, src, QueryParameter_handle(p, parameters))
    /\ UNCHANGED urlVars

\* AgencyParam.handle(parameters, source)
CallAgencyParam ==
    /\ call = NoCall
    /\ \E p \in OfClass("AgencyParam"), src \in Sources :
          \E parameters \in ParametersFor(p) :
              call' = Called(p, parameters, src, AgencyParam_handle(p, parameters, src))
    /\ UNCHANGED urlVars

\* PositiveIntParam.handle(parameters)
CallPositiveIntParam ==
    /\ call = NoCall
    /\ \E p \in OfClass("PositiveIntParam"), src \in Sources :
          \E parameters \in ParametersFor(p) :
              call' = Called(p, parameters, src, PositiveIntParam_handle(p, parameters))
    /\ UNCHANGED urlVars

NextHandle ==
    CallPathParameter \/ CallQueryParameter \/ CallAgencyParam
        \/ CallPositiveIntParam

SpecHandle == Init /\ [][NextHandle]_vars

(***************************************************************************)
(* Properties of the URL builder (specification Spec).                     *)
(***************************************************************************)
\* The keys the caller supplied, and those supplied twice.
Supplied == Keys(kwargs) \cup Keys(params_dict)
Overlap == Keys(kwargs) \cap Keys(params_dict)

\* The value the caller supplied for key k.
ValueSupplied(k) == IF Has(kwargs, k) THEN Get(kwargs, k) ELSE Get(params_dict, k)

\* The base URLs of Sources without their query and fragment.
ExpectedBase(u) ==
    CASE u = "https://example.org/sdmx" -> "https://example.org/sdmx"
      [] u = "http://ws.example.org/rest/?fmt=xml#top" -> "http://ws.example.org/rest/"

\* C1, as stated: a build given the unrecognised keyword bogus_param always
\* fails with the unconsumed-parameter error and with no other.
C1_BogusAlwaysUnexpected ==
    (pc # "new" /\ "bogus_param" \in Supplied) => err = UnexpectedError

\* C1, amended: a build given the unrecognised keyword bogus_param never
\* succeeds; it fails with the unconsumed-parameter error unless an earlier
\* step fails first: the duplicate check, or handle_data / handle_metadata
\* finding no resource_id (KeyError).
C1_BogusNeverBuilds ==
    (pc # "new" /\ "bogus_param" \in Supplied) =>
        /\ pc = "failed"
        /\ IF Overlap # {} THEN err = DuplicateError
           ELSE IF query_type \in {"data", "metadata"} /\ "resource_id" \notin Supplied
           THEN err = KeyError
           ELSE err = UnexpectedError

C1_Witness ==
    /\ pc = "failed"
    /\ query_type = "data"
    /\ kwargs = <<<<"resource_id", StrV("EXR")>>, <<"bogus_param", StrV("x")>>>>
    /\ params_dict = EmptyDict
    /\ stage = "handled"
    /\ err = UnexpectedError

\* C2, as stated: the build for resource `dataflow` with resource_id="EXR"
\* (given once) and base URL https://example.org/sdmx completes and join() returns
\* https://example.org/sdmx/data/EXR.
C2_DataflowYieldsDataURL ==
    (/\ pc # "new"
     /\ resource_type = "dataflow"
     /\ Supplied = {"resource_id"} /\ Overlap = {}
     /\ ValueSupplied("resource_id") = StrV("EXR")
     /\ source.url = "https://example.org/sdmx") =>
        /\ pc # "failed"
        /\ pc = "joined" =>
               url = [err |-> OK, url |-> "https://example.org/sdmx/data/EXR"]

\* C2, amended: the build for resource `data` with resource_id="EXR" (given
\* once) and base URL https://example.org/sdmx completes and join() returns
\* https://example.org/sdmx/data/EXR.
C2_DataYieldsDataURL ==
    (/\ pc # "new"
     /\ resource_type = "data"
     /\ Supplied = {"resource_id"} /\ Overlap = {}
     /\ ValueSupplied("resource_id") = StrV("EXR")
     /\ source.url = "https://example.org/sdmx") =>
        /\ pc # "failed"
        /\ query_type = "data"
        /\ pc = "joined" =>
               url = [err |-> OK, url |-> "https://example.org/sdmx/data/EXR"]

C2_Witness ==
    /\ pc = "joined"
    /\ resource_type = "data"
    /\ kwargs = <<<<"resource_id", StrV("EXR")>>>>
    /\ params_dict = EmptyDict
    /\ source.url = "https://example.org/sdmx"
    /\ url.url = "https://example.org/sdmx/data/EXR"

\* A schema query given agency_id, resource_id and version (and possibly
\* context), each once.
SchemaCase ==
    /\ pc # "new"
    /\ resource_type = "schema"
    /\ Overlap = {}
    /\ {"agency_id", "resource_id", "version"} \subseteq Supplied
    /\ Supplied \subseteq {"agency_id", "resource_id", "version", "context"}

\* C3: a schema query given agency_id, resource_id and version completes, and
\* its path holds, after the resource type, context, agency_id, resource_id
\* and version in this order with the values supplied, in whatever order the
\* caller gave the keywords; join() emits the segments in the same order.
C3_SchemaPathOrder ==
    SchemaCase =>
        /\ pc # "failed"
        /\ _path = << <<"schema", None>>,
                      <<"context", IF "context" \in Supplied
                                   THEN ValueSupplied("context") ELSE None>>,
                      <<"agency_id", ValueSupplied("agency_id")>>,
                      <<"resource_id", ValueSupplied("resource_id")>>,
                      <<"version", ValueSupplied("version")>> >>
        /\ (pc = "joined" /\ ValueSupplied("resource_id") # StrV("")) =>
               url.url = ExpectedBase(source.url) \o "/schema/"
                         \o (IF "context" \in Supplied
                             THEN ValueSupplied("context")[2] ELSE "context")
                         \o "/" \o ValueSupplied("agency_id")[2]
                         \o "/" \o ValueSupplied("resource_id")[2]
                         \o "/" \o ValueSupplied("version")[2]

C3_Witness ==
    /\ pc = "joined"
    /\ resource_type = "schema"
    /\ kwargs = << <<"version", StrV("1.0")>>, <<"resource_id", StrV("EXR")>>,
                   <<"agency_id", StrV("OECD")>> >>
    /\ params_dict = EmptyDict
    /\ url.url = "https://example.org/sdmx/schema/context/OECD/EXR/1.0"

\* C8: keys given both as keywords and in `params` fail the build with the
\* duplicate-parameter error before the query type is set and before a
\* handler runs; otherwise self._params first holds exactly the union of the
\* two mappings.
C8_DuplicateOrUnion ==
    pc # "new" =>
        IF Overlap # {}
        THEN /\ pc = "failed"
             /\ err = DuplicateError
             /\ stage = "params"
             /\ query_type = "unset"
             /\ _path = EmptyDict /\ _query = EmptyDict
        ELSE /\ err # DuplicateError
             /\ stage # "params"
             /\ Keys(stored) = Supplied
             /\ Len(stored) = Cardinality(Supplied)
             /\ \A k \in Supplied : Get(stored, k) = ValueSupplied(k)

C8_Witness ==
    /\ pc = "failed"
    /\ err = DuplicateError
    /\ Overlap = {"resource_id"}
    /\ resource_type = "data"

\* The text join() is to emit for a path: one segment per entry, in order, the
\* value unless it is None, then the name.
RECURSIVE ExpectedSegments(_)
ExpectedSegments(path) ==
    IF path = << >> THEN ""
    ELSE "/" \o (IF IsNone(path[1][2]) THEN path[1][1] ELSE path[1][2][2])
         \o ExpectedSegments(Tail(path))

\* C9: join() emits, after the base URL's path, one segment per entry of the
\* path, in insertion order: the value whenever it is not None (an empty
\* string too), the name when it is None.
C9_SegmentIsValueUnlessNone ==
    (pc = "joined" /\ url.err = OK) =>
        url.url = ExpectedBase(source.url) \o ExpectedSegments(_path)

\* C10: the build, whether it succeeds or fails, leaves the caller's `params`
\* mapping as it was passed.
C10_CallerParamsUntouched ==
    pc # "new" => callerParams = params_dict

C10_Witness ==
    /\ pc = "joined"
    /\ query_type = "data"
    /\ kwargs = EmptyDict
    /\ params_dict = <<<<"resource_id", StrV("EXR")>>>>
    /\ _params = EmptyDict
    /\ callerParams = <<<<"resource_id", StrV("EXR")>>>>

(***************************************************************************)
(* Properties of Parameter.handle (specification SpecHandle).              *)
(***************************************************************************)
\* The camelCase names of the query parameters of PARAM.
ExpectedCamel ==
    [start_period |-> "startPeriod",
     end_period |-> "endPeriod",
     updated_after |-> "updatedAfter",
     first_n_observations |-> "firstNObservations",
     last_n_observations |-> "lastNObservations",
     dimension_at_observation |-> "dimensionAtObservation",
     include_history |-> "includeHistory",
     explicit_measure |-> "explicitMeasure",
     mode |-> "mode"]

\* A call of handle of a parameter of class cls was made.
CallOf(cls) == call.cls = cls

\* The names of the called parameter among the keys given, and the value
\* given under the one that is there.
GivenNames == {call.p.name, ExpectedCamel[call.p.name]} \cap Keys(call.parameters)
GivenValue == Get(call.parameters, CHOOSE k \in GivenNames : TRUE)

\* C4: a PositiveIntParam given a positive integer v returns, when it
\* succeeds, the fragment {camelName: str(v)}.
C4_FragmentIsStringOfValue ==
    (/\ CallOf("PositiveIntParam")
     /\ Cardinality(GivenNames) = 1
     /\ IsInt(GivenValue) /\ GivenValue[2] > 0
     /\ call.out.err = OK) =>
        call.out.frag =
            <<<<ExpectedCamel[call.p.name], StrV(ToString(GivenValue[2]))>>>>

\* C5, as stated: a QueryParameter whose two names differ fails with the
\* conflicting-alias error when given both; given exactly one, it succeeds,
\* removes that key and returns {camelName: value}; given neither, it returns
\* the empty fragment and leaves the parameters as they are.
C5_QueryParameterOutcome ==
    (CallOf("QueryParameter") /\ call.p.name # ExpectedCamel[call.p.name]) =>
        CASE Cardinality(GivenNames) = 2 -> call.out.err = BothError
          [] Cardinality(GivenNames) = 1 ->
                 /\ call.out.err = OK
                 /\ call.out.parameters =
                        Del(call.parameters, CHOOSE k \in GivenNames : TRUE)
                 /\ call.out.frag =
                        <<<<ExpectedCamel[call.p.name], GivenValue>>>>
          [] Cardinality(GivenNames) = 0 ->
                 /\ call.out.err = OK
                 /\ call.out.frag = EmptyDict
                 /\ call.out.parameters = call.parameters

\* C5, amended: as C5, but given exactly one name the call succeeds only when
\* the value passes the parameter's allowable-values assertion (the set is
\* empty or holds the value); otherwise the key is removed and the assertion
\* fails.
C5_QueryParameterOutcomeAllowed ==
    (CallOf("QueryParameter") /\ call.p.name # ExpectedCamel[call.p.name]) =>
        CASE Cardinality(GivenNames) = 2 ->
                 /\ call.out.err = BothError
                 /\ call.out.parameters = call.parameters
          [] Cardinality(GivenNames) = 1 ->
                 /\ call.out.parameters =
                        Del(call.parameters, CHOOSE k \in GivenNames : TRUE)
                 /\ IF call.p.values = {} \/ GivenValue \in call.p.values
                    THEN /\ call.out.err = OK
                         /\ call.out.frag =
                                <<<<ExpectedCamel[call.p.name], GivenValue>>>>
                    ELSE call.out.err = AssertionError
          [] Cardinality(GivenNames) = 0 ->
                 /\ call.out.err = OK
                 /\ call.out.frag = EmptyDict
                 /\ call.out.parameters = call.parameters

C5_Witness ==
    /\ CallOf("QueryParameter")
    /\ call.p.name = "start_period"
    /\ call.parameters = << <<"key", StrV("A.B")>>, <<"startPeriod", StrV("2020-01")>> >>
    /\ call.out.err = OK
    /\ call.out.frag = <<<<"startPeriod", StrV("2020-01")>>>>
    /\ call.out.parameters = <<<<"key", StrV("A.B")>>>>

\* C6: a PositiveIntParam given the integer v succeeds when v > 0 and fails
\* with the non-positive-integer error when v <= 0; given neither of its
\* names it returns the empty fragment without error.
C6_PositiveIntOutcome ==
    CallOf("PositiveIntParam") =>
        /\ (Cardinality(GivenNames) = 1 /\ IsInt(GivenValue)) =>
               IF GivenValue[2] > 0 THEN call.out.err = OK
               ELSE call.out.err = PositiveError
        /\ Cardinality(GivenNames) = 0 =>
               /\ call.out.err = OK
               /\ call.out.frag = EmptyDict

C6_Witness ==
    /\ CallOf("PositiveIntParam")
    /\ call.p.name = "first_n_observations"
    /\ call.parameters = <<<<"first_n_observations", IntV(0)>>>>
    /\ call.out.err = PositiveError

\* C7: AgencyParam.handle returns {"agency_id": S}, S the source's id, when no
\* agency_id is given, and {"agency_id": A} when agency_id = A is given; either
\* way agency_id is not among the parameters afterwards.
C7_AgencyDefault ==
    CallOf("AgencyParam") =>
        /\ call.out.err = OK
        /\ "agency_id" \notin Keys(call.out.parameters)
        /\ call.out.frag =
               <<<<"agency_id",
                   IF Has(call.parameters, "agency_id")
                   THEN Get(call.parameters, "agency_id")
                   ELSE IF call.source.hasId THEN call.source.id ELSE None>>>>

C7_Witness ==
    /\ CallOf("AgencyParam")
    /\ call.parameters = <<<<"key", StrV("A.B")>>>>
    /\ call.source.id = StrV("ECB")
    /\ call.out.frag = <<<<"agency_id", StrV("ECB")>>>>
    /\ call.out.parameters = <<<<"key", StrV("A.B")>>>>

=============================================================================
